---- MODULE Spec2Model ----
(***************************************************************************)
(* Model of the raffle registration of MSSorteos:                          *)
(*   - the code-issuance edge function (supabase/functions/send-codes),    *)
(*   - the intake route handler (app/api/submit-form/route.ts, the         *)
(*     "Stashed changes" side of the file, which is the revision that      *)
(*     writes the tables forms / form_files; the validation of the         *)
(*     "Updated upstream" side is modelled next to it),                    *)
(*   - the registration form, the ticket selector and the payment context  *)
(*     of the browser (components/, contexts/).                            *)
(* Every await of a handler is a scheduling point, so each handler is cut  *)
(* into one action per awaited call; the synchronous code that follows an  *)
(* await belongs to the same action.                                       *)
(***************************************************************************)
EXTENDS Integers, Sequences, FiniteSets

\* a nullable column or local: None is SQL NULL / undefined, Some(x) a value
None == <<>>
Some(x) == <<x>>
IsSome(o) == Len(o) = 1
Value(o) == o[1]

\* a missing (falsy) identifier in a request body
NoId == 0

(***************************************************************************)
(* Bounds of the model.                                                    *)
(***************************************************************************)
\* size of the code space and global cap; 10000 in the source
\* (send-codes/index.ts:55), scaled down so that the cap can be reached
MAX_TICKETS == 3
\* number of rows of the table compras
MaxCompras == 2
\* largest tickets_comprados of a row
MaxRequested == 2
\* number of invocations of the edge function
MaxRuns == 3
\* number of invocations that may be in progress at the same time
MaxConcurrent == 2
\* cap on the draw counter of one run (the loop of the source has none)
MaxDraws == 6

\* width of a code, padStart(4, '0')
CodeWidth == 4
\* attempts per requested code in the bounded revision of the loop
AttemptFactor == 5

\* number of requests to the intake endpoint
MaxReqs == 2
\* number of values uuidv4() can return
MaxUuids == 2

\* number of submit events of the registration form
MaxSubmits == 2
\* largest count the ticket selector is taken to
MaxSelected == 6
\* largest count the preset buttons take the selector to when it is alone
MaxCount == 23
\* number of recorded operations on the selector
MaxOps == 4

\* MINIMUM tickets of a registration, the literal 3 of the intake handler
MinTickets == 3
\* the 2 MB ceiling of the intake handler (MAX_FILE_SIZE_BYTES)
MAX_FILE_SIZE_BYTES == 2 * 1024 * 1024

CompraIds == 1..MaxCompras
Reqs == 1..MaxReqs
Uuids == 1..MaxUuids
Runs == 1..MaxRuns
TicketCounts == 1..MaxRequested

VARIABLES
  \* ---- relational store, table compras ----
  compras,            \* id -> [tickets_comprados, codigos_unicos]
  \* ---- one record per invocation of the edge function ----
  ipc,                \* position of the run
  compra_id,          \* request body field
  numTickets,         \* tickets_comprados read by the run
  allExistingCodes,   \* snapshot of every stored code, plus the run's own draws
  codesToGenerate,    \* accepted draws, in insertion order
  draws,              \* number of loop iterations executed so far
  istatus,            \* HTTP status of the response, 0 while running
  newCodes,           \* batch written by the update, <<>> if none was written
  finishedBefore,     \* runs that had returned when this run was invoked
  mailed,             \* codes of the email the run handed to the mail service, None if none
  mailError,          \* whether the rejection of the send promise was logged
  sending             \* whether the send promise of the run is still unsettled

VARIABLES
  \* ---- content store (bucket receipts) and relational store ----
  store,              \* set of objects [key, body]; body names the uploading request
  forms,              \* rows of the table forms
  form_files,         \* rows of the table form_files
  nextFormId,         \* next identifier the database generates for forms.id
  \* ---- one record per request to the intake endpoint ----
  rpc,                \* position of the handler
  fields,             \* validated form fields held by the handler
  uniqueFileName,     \* storage key generated by the handler, None before
  formId,             \* id returned by the forms insert, 0 before
  rstatus,            \* HTTP status of the response, 0 while running
  rerror,             \* which error message the response carries
  ruleFailed,         \* whether the request broke a validation rule
  reference           \* the reference number the request carried, None if absent

VARIABLES
  \* ---- state of the registration form component ----
  formData,           \* buyerName, email, phone, referenceNumber, ticketCount
  proofFile,          \* the attached File, None if none
  termsAccepted,
  isSubmitting,
  validationErrors,   \* the messages displayed, in order
  inflight,           \* bodies of the requests to /api/submit-form not yet answered
  submits,            \* number of submit events handled
  requests,           \* number of requests sent to /api/submit-form
  timers,             \* delays of the pending setTimeout callbacks
  opened,             \* number of times the deep link was opened
  \* ---- payment context and ticket selector ----
  selectedPaymentMethod,
  selectedTickets,
  customAmount,
  totalAmount,        \* in tenths of the unit of the active currency
  selectorOps         \* the operations on the selector in order, None if not recorded

VARIABLES
  \* ---- one ticket text and one file put to the rules of both sides ----
  probe,              \* the ticket text and the file size
  revision,           \* which side of route.ts answers
  clientVerdict,      \* what the form did with them, None before
  serverVerdict       \* what the handler answered, None before

formVars == <<formData, proofFile, termsAccepted, isSubmitting, validationErrors,
              inflight, submits, requests, timers, opened>>

selectorVars == <<selectedPaymentMethod, selectedTickets, customAmount, totalAmount,
                  selectorOps>>

ruleVars == <<probe, revision, clientVerdict, serverVerdict>>

frontVars == <<formVars, selectorVars, ruleVars>>

intakeVars == <<store, forms, form_files, nextFormId, rpc, fields,
                uniqueFileName, formId, rstatus, rerror, ruleFailed, reference>>

issueVars == <<compras, ipc, compra_id, numTickets, allExistingCodes,
               codesToGenerate, draws, istatus, newCodes, finishedBefore,
               mailed, mailError, sending>>

backVars == <<issueVars, intakeVars>>

vars == <<issueVars, intakeVars, frontVars>>

(***************************************************************************)
(* Pure helpers of the edge function.                                      *)
(***************************************************************************)
DigitChars == <<"0", "1", "2", "3", "4", "5", "6", "7", "8", "9">>

\* String(n) for a non-negative integer
RECURSIVE NumberToString(_)
NumberToString(n) ==
  IF n < 10 THEN <<DigitChars[n + 1]>>
  ELSE NumberToString(n \div 10) \o <<DigitChars[(n % 10) + 1]>>

\* s.padStart(w, c)
RECURSIVE PadStart(_, _, _)
PadStart(s, w, c) == IF Len(s) >= w THEN s ELSE PadStart(<<c>> \o s, w, c)

\* values of Math.floor(Math.random() * MAX_TICKETS)
RandomDraws == 0..(MAX_TICKETS - 1)

\* String(Math.floor(Math.random() * MAX_TICKETS)).padStart(4, '0')
CodeOf(n) == PadStart(NumberToString(n), CodeWidth, "0")

SeqToSet(s) == {s[i] : i \in 1..Len(s)}

\* codes of one row; a row whose codigos_unicos is not an array has none
RowCodes(row) ==
  IF IsSome(row.codigos_unicos) THEN SeqToSet(Value(row.codigos_unicos)) ELSE {}

\* existingCodesData.forEach(... allExistingCodes.add(code))
CollectExisting(tbl) == UNION {RowCodes(tbl[c]) : c \in DOMAIN tbl}

\* allExistingCodes.size + numTickets > MAX_TICKETS
CapExceeded(existing, n) == Cardinality(existing) + n > MAX_TICKETS

\* !allExistingCodes.has(code)
DrawAccepted(existing, code) == code \notin existing

\* while (codesToGenerate.size < numTickets)
LoopContinues(generated, n) == Len(generated) < n

\* an update that reports success and writes nothing
UpdateCodesLost(tbl, id, codes) == tbl

\* .update({ codigos_unicos: newCodes }).eq('id', compra_id)
UpdateCodes(tbl, id, codes) ==
  [tbl EXCEPT ![id] = [@ EXCEPT !.codigos_unicos = Some(codes)]]

(***************************************************************************)
(* The edge function, one action per awaited call.                         *)
(***************************************************************************)
\* a purchase of n tickets as the intake handler records it: not validated, and
\* no codes yet
NewCompra(n) == [tickets_comprados |-> n, codigos_unicos |-> None, validated |-> FALSE]

RunsInit ==
  /\ ipc = [r \in Runs |-> "idle"]
  /\ compra_id = [r \in Runs |-> NoId]
  /\ numTickets = [r \in Runs |-> 0]
  /\ allExistingCodes = [r \in Runs |-> {}]
  /\ codesToGenerate = [r \in Runs |-> <<>>]
  /\ draws = [r \in Runs |-> 0]
  /\ istatus = [r \in Runs |-> 0]
  /\ newCodes = [r \in Runs |-> <<>>]
  /\ finishedBefore = [r \in Runs |-> {}]
  /\ mailed = [r \in Runs |-> None]
  /\ mailError = [r \in Runs |-> FALSE]
  /\ sending = [r \in Runs |-> FALSE]

\* the locals of a run go out of scope when it returns
Return(r, st) ==
  /\ ipc' = [ipc EXCEPT ![r] = "done"]
  /\ istatus' = [istatus EXCEPT ![r] = st]
  /\ numTickets' = [numTickets EXCEPT ![r] = 0]
  /\ allExistingCodes' = [allExistingCodes EXCEPT ![r] = {}]
  /\ codesToGenerate' = [codesToGenerate EXCEPT ![r] = <<>>]
  /\ draws' = [draws EXCEPT ![r] = 0]

Active == {q \in Runs : ipc[q] \notin {"idle", "done"}}

\* req.json() and the check of compra_id (2.1); at most limit runs overlap,
\* and the runs are numbered in the order of their invocation
Invoke(r, id, limit) ==
  /\ ipc[r] = "idle"
  /\ \A q \in Runs : q < r => ipc[q] # "idle"
  /\ Cardinality(Active) < limit
  /\ compra_id' = [compra_id EXCEPT ![r] = id]
  /\ finishedBefore' = [finishedBefore EXCEPT ![r] = {q \in Runs : ipc[q] = "done"}]
  /\ IF id = NoId
       THEN Return(r, 400)
       ELSE /\ ipc' = [ipc EXCEPT ![r] = "lookup"]
            /\ UNCHANGED <<numTickets, allExistingCodes, codesToGenerate, draws, istatus>>
  /\ UNCHANGED <<compras, newCodes, mailed, mailError, sending, intakeVars, frontVars>>

\* select of the purchase row (2.2)
Lookup(r, ok) ==
  /\ ipc[r] = "lookup"
  /\ IF ~ok
       THEN Return(r, 500)
       ELSE /\ numTickets' = [numTickets EXCEPT ![r] = compras[compra_id[r]].tickets_comprados]
            /\ ipc' = [ipc EXCEPT ![r] = "fetch"]
            /\ UNCHANGED <<allExistingCodes, codesToGenerate, draws, istatus>>
  /\ UNCHANGED <<compras, compra_id, newCodes, finishedBefore, mailed, mailError,
                 sending, intakeVars, frontVars>>

\* select of every codigos_unicos, then the cap check (2.3)
FetchCodes(r, ok) ==
  /\ ipc[r] = "fetch"
  /\ IF ~ok
       THEN Return(r, 500)
       ELSE LET existing == CollectExisting(compras) IN
            IF CapExceeded(existing, numTickets[r])
              THEN Return(r, 403)
              ELSE /\ allExistingCodes' = [allExistingCodes EXCEPT ![r] = existing]
                   /\ ipc' = [ipc EXCEPT ![r] = "draw"]
                   /\ UNCHANGED <<numTickets, codesToGenerate, draws, istatus>>
  /\ UNCHANGED <<compras, compra_id, newCodes, finishedBefore, mailed, mailError,
                 sending, intakeVars, frontVars>>

\* one iteration of the generation loop; a rejected draw changes nothing
DrawStep(r, n) ==
  /\ ipc[r] = "draw"
  /\ LoopContinues(codesToGenerate[r], numTickets[r])
  /\ LET code == CodeOf(n) IN
       IF DrawAccepted(allExistingCodes[r], code)
         THEN /\ codesToGenerate' = [codesToGenerate EXCEPT ![r] = Append(@, code)]
              /\ allExistingCodes' = [allExistingCodes EXCEPT ![r] = @ \cup {code}]
         ELSE UNCHANGED <<codesToGenerate, allExistingCodes>>
  /\ UNCHANGED <<compras, ipc, compra_id, numTickets, istatus, newCodes, finishedBefore,
                 mailed, mailError, sending, intakeVars, frontVars>>

Draw(r, n) == DrawStep(r, n) /\ UNCHANGED draws

\* the same iteration, with the number of iterations of the run recorded
CountedDraw(r, n) ==
  /\ draws[r] < MaxDraws
  /\ DrawStep(r, n)
  /\ draws' = [draws EXCEPT ![r] = @ + 1]

\* update of the purchase row (2.4), the start of the email (2.5), which is
\* not awaited, and the response
Update(r, ok) ==
  /\ ipc[r] = "draw"
  /\ ~LoopContinues(codesToGenerate[r], numTickets[r])
  /\ IF ~ok
       THEN /\ Return(r, 500)
            /\ UNCHANGED <<compras, newCodes, mailed, sending>>
       ELSE /\ compras' = UpdateCodes(compras, compra_id[r], codesToGenerate[r])
            /\ newCodes' = [newCodes EXCEPT ![r] = codesToGenerate[r]]
            /\ mailed' = [mailed EXCEPT ![r] = Some(codesToGenerate[r])]
            /\ sending' = [sending EXCEPT ![r] = TRUE]
            /\ Return(r, 200)
  /\ UNCHANGED <<compra_id, finishedBefore, mailError, intakeVars, frontVars>>

\* a send promise whose rejection is surfaced as the status of the run
SettledStatusSurfaced(st, sent) == IF sent THEN st ELSE 500

\* sendEmailPromise.catch(err => console.error(...)): the handler of the
\* rejection returns nothing to the caller, the status of the run stays
SettledStatus(st, sent) == st

\* the send promise settles after the response was returned; a rejection is
\* logged
SendSettles(r, sent) ==
  /\ sending[r]
  /\ sending' = [sending EXCEPT ![r] = FALSE]
  /\ mailError' = [mailError EXCEPT ![r] = ~sent]
  /\ istatus' = [istatus EXCEPT ![r] = SettledStatus(@, sent)]
  /\ UNCHANGED <<compras, ipc, compra_id, numTickets, allExistingCodes, codesToGenerate,
                 draws, newCodes, finishedBefore, mailed, intakeVars, frontVars>>

\* the operator marks a submission validated (outside the handlers)
MarkValidated(c) ==
  /\ ~compras[c].validated
  /\ compras' = [compras EXCEPT ![c] = [@ EXCEPT !.validated = TRUE]]
  /\ UNCHANGED <<ipc, compra_id, numTickets, allExistingCodes, codesToGenerate, draws,
                 istatus, newCodes, finishedBefore, mailed, mailError, sending,
                 intakeVars, frontVars>>

\* overlapping runs
IssueNext ==
  \/ \E r \in Runs, id \in CompraIds \cup {NoId} : Invoke(r, id, MaxConcurrent)
  \/ \E r \in Runs, ok \in BOOLEAN : Lookup(r, ok)
  \/ \E r \in Runs, ok \in BOOLEAN : FetchCodes(r, ok)
  \/ \E r \in Runs, n \in RandomDraws : Draw(r, n)
  \/ \E r \in Runs, ok \in BOOLEAN : Update(r, ok)
  \/ \E r \in Runs, sent \in BOOLEAN : SendSettles(r, sent)

\* runs one after the other, with the loop iterations counted
SerialNext ==
  \/ \E r \in Runs, id \in CompraIds \cup {NoId} : Invoke(r, id, 1)
  \/ \E r \in Runs, ok \in BOOLEAN : Lookup(r, ok)
  \/ \E r \in Runs, ok \in BOOLEAN : FetchCodes(r, ok)
  \/ \E r \in Runs, n \in RandomDraws : CountedDraw(r, n)
  \/ \E r \in Runs, ok \in BOOLEAN : Update(r, ok)
  \/ \E r \in Runs, sent \in BOOLEAN : SendSettles(r, sent)

\* runs one after the other, whose emails settle at any later time
MailNext ==
  \/ \E r \in Runs, id \in CompraIds \cup {NoId} : Invoke(r, id, 1)
  \/ \E r \in Runs, ok \in BOOLEAN : Lookup(r, ok)
  \/ \E r \in Runs, ok \in BOOLEAN : FetchCodes(r, ok)
  \/ \E r \in Runs, n \in RandomDraws : Draw(r, n)
  \/ \E r \in Runs, ok \in BOOLEAN : Update(r, ok)
  \/ \E r \in Runs, sent \in BOOLEAN : SendSettles(r, sent)

\* runs one after the other, and the operator validating submissions
GatedNext ==
  \/ \E c \in CompraIds : MarkValidated(c)
  \/ \E r \in Runs, id \in CompraIds \cup {NoId} : Invoke(r, id, 1)
  \/ \E r \in Runs, ok \in BOOLEAN : Lookup(r, ok)
  \/ \E r \in Runs, ok \in BOOLEAN : FetchCodes(r, ok)
  \/ \E r \in Runs, n \in RandomDraws : Draw(r, n)
  \/ \E r \in Runs, ok \in BOOLEAN : Update(r, ok)
  \/ \E r \in Runs, sent \in BOOLEAN : SendSettles(r, sent)

(***************************************************************************)
(* Pure helpers of the intake handler.  A string is a sequence of          *)
(* one-character strings.                                                  *)
(***************************************************************************)
WhiteSpace == {" "}

RECURSIVE TrimStart(_)
TrimStart(s) ==
  IF s # <<>> /\ Head(s) \in WhiteSpace THEN TrimStart(Tail(s)) ELSE s

RECURSIVE TrimEnd(_)
TrimEnd(s) ==
  IF s # <<>> /\ s[Len(s)] \in WhiteSpace THEN TrimEnd(SubSeq(s, 1, Len(s) - 1)) ELSE s

\* s.trim()
Trim(s) == TrimEnd(TrimStart(s))

\* !field?.trim() for a text field that is absent (null) or a string
Blank(field) == ~IsSome(field) \/ Trim(Value(field)) = <<>>

IsDigit(ch) == \E d \in 1..10 : ch = DigitChars[d]
DigitValue(ch) == (CHOOSE d \in 1..10 : ch = DigitChars[d]) - 1

\* the longest prefix of s made of digits
RECURSIVE LeadingDigits(_)
LeadingDigits(s) ==
  IF s # <<>> /\ IsDigit(Head(s)) THEN <<Head(s)>> \o LeadingDigits(Tail(s)) ELSE <<>>

RECURSIVE DigitsValue(_)
DigitsValue(ds) ==
  IF ds = <<>> THEN 0
  ELSE 10 * DigitsValue(SubSeq(ds, 1, Len(ds) - 1)) + DigitValue(ds[Len(ds)])

\* Number.parseInt(text): leading white space is skipped, an optional sign is
\* read, then the longest run of digits; what follows is ignored.  None is NaN
\* (no digit, or the field is absent).
ParseInt(field) ==
  IF ~IsSome(field) THEN None
  ELSE LET t == TrimStart(Value(field))
           neg == t # <<>> /\ Head(t) = "-"
           u == IF t # <<>> /\ Head(t) \in {"-", "+"} THEN Tail(t) ELSE t
           ds == LeadingDigits(u)
       IN IF ds = <<>> THEN None
          ELSE Some(IF neg THEN 0 - DigitsValue(ds) ELSE DigitsValue(ds))

\* isNaN(ticketsComprados) || ticketsComprados < 3
TicketsRejected(n) == ~IsSome(n) \/ Value(n) < MinTickets

\* the value of formData.get("comprobante_pago"): absent (null), a text part
\* (a string, which has neither size nor name) or a File
AbsentPart == [kind |-> "absent", text |-> <<>>, name |-> <<>>, size |-> 0]
TextPart(t) == [kind |-> "text", text |-> t, name |-> <<>>, size |-> 0]
FilePart(n, sz) == [kind |-> "file", text |-> <<>>, name |-> n, size |-> sz]

\* !comprobantePago || comprobantePago.size === 0
ProofMissing(f) ==
  \/ f.kind = "absent"
  \/ f.kind = "text" /\ f.text = <<>>
  \/ f.kind = "file" /\ f.size = 0

\* comprobantePago.size > MAX_FILE_SIZE_BYTES (undefined > n is false)
ProofTooLarge(f) == f.kind = "file" /\ f.size > MAX_FILE_SIZE_BYTES

\* comprobantePago.name.split(".").pop(); on a text part name is undefined
\* and the expression throws
ExtensionThrows(f) == f.kind # "file"

RECURSIVE AfterLastDot(_)
AfterLastDot(n) ==
  IF n = <<>> \/ n[Len(n)] = "." THEN <<>>
  ELSE AfterLastDot(SubSeq(n, 1, Len(n) - 1)) \o <<n[Len(n)]>>

FileExtension(f) == AfterLastDot(f.name)

\* the checks of 2.1 in order, then the computation of the storage key:
\* the status and message of the early return, or status 0 to go on
Validate(in) ==
  IF Blank(in.nombre_comprador) \/ Blank(in.email) \/ Blank(in.telefono)
       \/ Blank(in.numero_referencia)
    THEN [status |-> 400, error |-> "campos"]
  ELSE IF TicketsRejected(ParseInt(in.tickets_comprados))
    THEN [status |-> 400, error |-> "tickets"]
  ELSE IF ProofMissing(in.comprobante_pago)
    THEN [status |-> 400, error |-> "comprobante"]
  ELSE IF ProofTooLarge(in.comprobante_pago)
    THEN [status |-> 400, error |-> "tamano"]
  ELSE IF ExtensionThrows(in.comprobante_pago)
    THEN [status |-> 500, error |-> "interno"]
  ELSE [status |-> 0, error |-> ""]

\* upload with upsert: true, which overwrites
KeyInUseIgnored(objects, key) == FALSE

\* upload(..., { upsert: false }) refuses a key that is in use
KeyInUse(objects, key) == \E o \in objects : o.key = key

PutObject(objects, key, body) ==
  {o \in objects : o.key # key} \cup {[key |-> key, body |-> body]}

\* storage.from("receipts").remove([key])
RemoveObject(objects, key) == {o \in objects : o.key # key}

\* the unique constraint on forms.receipt_number (error code 23505)
DuplicateReceipt(rows, ref) == \E row \in rows : row.receipt_number = ref

\* the row of insert({...}) into forms
FormRow(id, f) ==
  [id |-> id, full_name |-> f.full_name, email |-> f.email, phone |-> f.phone,
   receipt_number |-> f.receipt_number, tickets |-> f.tickets, validated |-> FALSE]

\* the row of insert({...}) into form_files
FileRow(id, f, key) == [form_id |-> id, file_name |-> f.file_name, storage_path |-> key]

\* a catch block that removes nothing once a key was generated
RollbackRemovesUnlessKey(key) == ~IsSome(key)

\* if (uniqueFileName) in the catch block
RollbackRemoves(key) == IsSome(key)

(***************************************************************************)
(* Requests the model sends to the intake endpoint.                        *)
(***************************************************************************)
NameInputs == {None, Some(<<" ">>), Some(<<"a">>)}
EmailInputs == {Some(<<>>), Some(<<"e">>)}
PhoneInputs == {Some(<<" ", " ">>), Some(<<"7">>)}
ReferenceInputs == {Some(<<" ">>), Some(<<"r">>), Some(<<"s">>)}
TicketInputs == {None, Some(<<"a">>), Some(<<"2">>), Some(<<"3">>), Some(<<"3", "a">>)}
ProofInputs ==
  {AbsentPart, TextPart(<<"x">>)}
    \cup {FilePart(<<"f", ".", "p">>, sz) :
            sz \in {0, MAX_FILE_SIZE_BYTES, MAX_FILE_SIZE_BYTES + 1}}

Inputs ==
  [nombre_comprador : NameInputs, email : EmailInputs, telefono : PhoneInputs,
   numero_referencia : ReferenceInputs, tickets_comprados : TicketInputs,
   comprobante_pago : ProofInputs]

NoFields ==
  [full_name |-> <<>>, email |-> <<>>, phone |-> <<>>, receipt_number |-> <<>>,
   tickets |-> 0, file_name |-> <<>>]

\* the handler's constants after validation
FieldsOf(in) ==
  [full_name |-> Value(in.nombre_comprador), email |-> Value(in.email),
   phone |-> Value(in.telefono), receipt_number |-> Value(in.numero_referencia),
   tickets |-> Value(ParseInt(in.tickets_comprados)),
   file_name |-> in.comprobante_pago.name]

\* a request breaks a rule of the submission gate: a text field empty after
\* trimming, a ticket count that is no integer or is below the minimum, no
\* proof file or one above the ceiling
BreaksRule(in) ==
  \/ \E f \in {in.nombre_comprador, in.email, in.telefono, in.numero_referencia} :
       ~IsSome(f) \/ \A i \in 1..Len(Value(f)) : Value(f)[i] = " "
  \/ ~IsSome(ParseInt(in.tickets_comprados))
  \/ Value(ParseInt(in.tickets_comprados)) < MinTickets
  \/ in.comprobante_pago.kind # "file"
  \/ in.comprobante_pago.size = 0
  \/ in.comprobante_pago.size > MAX_FILE_SIZE_BYTES

(***************************************************************************)
(* The intake handler, one action per awaited call.                        *)
(***************************************************************************)
IntakeInit ==
  /\ store = {}
  /\ forms = {}
  /\ form_files = {}
  /\ nextFormId = 1
  /\ rpc = [r \in Reqs |-> "idle"]
  /\ fields = [r \in Reqs |-> NoFields]
  /\ uniqueFileName = [r \in Reqs |-> None]
  /\ formId = [r \in Reqs |-> 0]
  /\ rstatus = [r \in Reqs |-> 0]
  /\ rerror = [r \in Reqs |-> ""]
  /\ ruleFailed = [r \in Reqs |-> FALSE]
  /\ reference = [r \in Reqs |-> None]

\* return NextResponse.json({...}, { status }); the constants of the handler
\* go out of scope
Respond(r, st, err) ==
  /\ rpc' = [rpc EXCEPT ![r] = "done"]
  /\ rstatus' = [rstatus EXCEPT ![r] = st]
  /\ rerror' = [rerror EXCEPT ![r] = err]
  /\ fields' = [fields EXCEPT ![r] = NoFields]

\* request.formData() throws on a body that is not a form: outer catch
PostMalformed(r) ==
  /\ rpc[r] = "idle"
  /\ \A q \in Reqs : q < r => rpc[q] # "idle"
  /\ Respond(r, 500, "interno")
  /\ UNCHANGED <<store, forms, form_files, nextFormId, uniqueFileName, formId, ruleFailed,
                 reference, issueVars, frontVars>>

\* formData(), the validation (2.1) and the generation of the storage key;
\* the requests are numbered in the order of their arrival
Post(r, in) ==
  /\ rpc[r] = "idle"
  /\ \A q \in Reqs : q < r => rpc[q] # "idle"
  /\ ruleFailed' = [ruleFailed EXCEPT ![r] = BreaksRule(in)]
  /\ reference' = [reference EXCEPT ![r] = in.numero_referencia]
  /\ LET v == Validate(in) IN
       IF v.status # 0
         THEN /\ Respond(r, v.status, v.error)
              /\ UNCHANGED uniqueFileName
         ELSE /\ rpc' = [rpc EXCEPT ![r] = "upload"]
              /\ fields' = [fields EXCEPT ![r] = FieldsOf(in)]
              /\ \E uuid \in Uuids :
                   uniqueFileName' =
                     [uniqueFileName EXCEPT
                        ![r] = Some([uuid |-> uuid,
                                     ext |-> FileExtension(in.comprobante_pago)])]
              /\ UNCHANGED <<rstatus, rerror>>
  /\ UNCHANGED <<store, forms, form_files, nextFormId, formId, issueVars, frontVars>>

\* storage.from("receipts").upload(uniqueFileName, file, { upsert: false })
Upload(r, ok) ==
  /\ rpc[r] = "upload"
  /\ IF ~ok \/ KeyInUse(store, Value(uniqueFileName[r]))
       THEN /\ Respond(r, 500, "subida")
            /\ UNCHANGED store
       ELSE /\ store' = PutObject(store, Value(uniqueFileName[r]), r)
            /\ rpc' = [rpc EXCEPT ![r] = "insertForm"]
            /\ UNCHANGED <<fields, rstatus, rerror>>
  /\ UNCHANGED <<forms, form_files, nextFormId, uniqueFileName, formId, ruleFailed,
                 reference, issueVars, frontVars>>

\* from("forms").insert({...}).select("id").single(); an error is thrown to
\* the catch block with its message
InsertForm(r, ok) ==
  /\ rpc[r] = "insertForm"
  /\ IF DuplicateReceipt(forms, fields[r].receipt_number)
       THEN /\ rpc' = [rpc EXCEPT ![r] = "catch"]
            /\ rerror' = [rerror EXCEPT ![r] = "duplicado"]
            /\ UNCHANGED <<forms, nextFormId, formId>>
       ELSE IF ~ok
         THEN /\ rpc' = [rpc EXCEPT ![r] = "catch"]
              /\ rerror' = [rerror EXCEPT ![r] = "formulario"]
              /\ UNCHANGED <<forms, nextFormId, formId>>
         ELSE /\ forms' = forms \cup {FormRow(nextFormId, fields[r])}
              /\ formId' = [formId EXCEPT ![r] = nextFormId]
              /\ nextFormId' = nextFormId + 1
              /\ rpc' = [rpc EXCEPT ![r] = "insertFile"]
              /\ UNCHANGED rerror
  /\ UNCHANGED <<store, form_files, fields, uniqueFileName, rstatus, ruleFailed,
                 reference, issueVars, frontVars>>

\* from("form_files").insert({...}), then the 200 response
InsertFile(r, ok) ==
  /\ rpc[r] = "insertFile"
  /\ IF ~ok
       THEN /\ rpc' = [rpc EXCEPT ![r] = "catch"]
            /\ rerror' = [rerror EXCEPT ![r] = "metadata"]
            /\ UNCHANGED <<form_files, fields, rstatus>>
       ELSE /\ form_files' =
                 form_files \cup {FileRow(formId[r], fields[r], Value(uniqueFileName[r]))}
            /\ Respond(r, 200, "")
  /\ UNCHANGED <<store, forms, nextFormId, uniqueFileName, formId, ruleFailed,
                 reference, issueVars, frontVars>>

\* catch (dbError): remove the uploaded object, then the error response
Rollback(r) ==
  /\ rpc[r] = "catch"
  /\ store' = IF RollbackRemoves(uniqueFileName[r])
                THEN RemoveObject(store, Value(uniqueFileName[r]))
                ELSE store
  /\ Respond(r, 500, rerror[r])
  /\ UNCHANGED <<forms, form_files, nextFormId, uniqueFileName, formId, ruleFailed,
                 reference, issueVars, frontVars>>

IntakeNext ==
  \/ \E r \in Reqs : PostMalformed(r)
  \/ \E r \in Reqs, in \in Inputs : Post(r, in)
  \/ \E r \in Reqs, ok \in BOOLEAN : Upload(r, ok)
  \/ \E r \in Reqs, ok \in BOOLEAN : InsertForm(r, ok)
  \/ \E r \in Reqs, ok \in BOOLEAN : InsertFile(r, ok)
  \/ \E r \in Reqs : Rollback(r)

(***************************************************************************)
(* The registration form (components/registration-form-section.tsx), the   *)
(* ticket selector and the payment context.  An event handler runs to its  *)
(* first await in one step, and React renders the batched state updates    *)
(* before the next event is delivered.                                     *)
(***************************************************************************)
\* value.replace(/[^0-9]/g, "")
OnlyDigits(s) == SelectSeq(s, IsDigit)

\* useState<FormData>({...})
InitialFormData ==
  [buyerName |-> <<>>, email |-> <<>>, phone |-> <<>>, referenceNumber |-> <<>>,
   ticketCount |-> <<"0">>]

\* a File of the browser
BrowserFile(n, sz) == [name |-> n, size |-> sz]

\* const maxFileSize = 3 * 1024 * 1024 in handleFileChange
maxFileSize == 3 * 1024 * 1024

\* a file input that accepts a file of any size
FileRefusedNever(file) == FALSE

\* file && file.size > maxFileSize
FileRefused(file) == IsSome(file) /\ Value(file).size > maxFileSize

\* Number.parseInt(formData.ticketCount) || 0
TicketCountOrZero(text) ==
  LET n == ParseInt(Some(text)) IN IF IsSome(n) THEN Value(n) ELSE 0

\* the errors handleSubmit pushes, in order
ClientErrors(fd, pf) ==
  (IF Trim(fd.buyerName) = <<>> THEN <<"Nombre del comprador es requerido">> ELSE <<>>)
  \o (IF Trim(fd.email) = <<>> THEN <<"Email es requerido">> ELSE <<>>)
  \o (IF Trim(fd.phone) = <<>> THEN <<"Numero de telefono es requerido">> ELSE <<>>)
  \o (IF Trim(fd.referenceNumber) = <<>>
        THEN <<"Numero de referencia es requerido">> ELSE <<>>)
  \o (IF TicketCountOrZero(fd.ticketCount) < 3
        THEN <<"Numero de tickets es requerido (minimo 3)">> ELSE <<>>)
  \o (IF ~IsSome(pf) THEN <<"Comprobante de pago es requerido">> ELSE <<>>)

\* a gate that lets a submission through without the terms accepted
TermsMissingIgnored(terms) == FALSE

\* if (!termsAccepted)
TermsMissing(terms) == ~terms

\* the validation of handleSubmit: whether the request is sent, and the
\* error list that is displayed
SubmitGate(fd, pf, terms) ==
  LET errors == ClientErrors(fd, pf) IN
    IF Len(errors) > 0 THEN [send |-> FALSE, errors |-> errors]
    ELSE IF TermsMissing(terms)
      THEN [send |-> FALSE, errors |-> <<"Debes aceptar los terminos y condiciones">>]
    ELSE [send |-> TRUE, errors |-> <<>>]

\* a body that carries the count of the ticket selector
FormToSendSelected(fd, pf) ==
  [nombre_comprador |-> Some(fd.buyerName), email |-> Some(fd.email),
   telefono |-> Some(fd.phone), numero_referencia |-> Some(fd.referenceNumber),
   tickets_comprados |-> Some(NumberToString(selectedTickets)),
   comprobante_pago |-> FilePart(Value(pf).name, Value(pf).size)]

\* the multipart body of the request
FormToSend(fd, pf) ==
  [nombre_comprador |-> Some(fd.buyerName), email |-> Some(fd.email),
   telefono |-> Some(fd.phone), numero_referencia |-> Some(fd.referenceNumber),
   tickets_comprados |-> Some(fd.ticketCount),
   comprobante_pago |-> FilePart(Value(pf).name, Value(pf).size)]

\* a submit control that stays enabled while a request is awaited
SubmitAlwaysEnabled(submitting) == TRUE

\* <Button type="submit" disabled={isSubmitting}>
SubmitEnabled(submitting) == ~submitting

\* a client that sends the request again when it was not accepted
AfterFailureResent(flight, i) == flight

\* the request i has been answered and is not sent again
AfterFailure(flight, i) == SubSeq(flight, 1, i - 1) \o SubSeq(flight, i + 1, Len(flight))

\* a handler whose exits after the request leave the flag set
FinallySkipped(submitting) == submitting

\* finally { setIsSubmitting(false) }, which also runs on the return inside
\* the try block
Finally(submitting) == FALSE

\* the delay of the setTimeout of the deep link, in ms
RedirectDelay == 1500

\* a success branch that schedules the deep link twice
ScheduleRedirectTwice(ts) == ts \o <<RedirectDelay, RedirectDelay>>

\* setTimeout(() => {...}, 1500)
ScheduleRedirect(ts) == Append(ts, RedirectDelay)

\* data.error.includes('duplicate key value ... "Formularios_email_key"')
EmailKeyError == "duplicate key value violates unique constraint Formularios_email_key"

\* the message shown for a response that is not ok
ResponseError(err) ==
  IF IsSome(err) /\ Value(err) = EmailKeyError
    THEN "Este email ya esta registrado. Por favor, utiliza un email diferente."
  ELSE IF IsSome(err) /\ Value(err) # "" THEN Value(err)
  ELSE "Error desconocido al enviar el formulario"

\* PaymentMethodId, in the order of PAYMENT_METHODS
PaymentMethods == <<"mercadopago", "tenpo", "santander", "zelle">>

\* the values of TICKET_PRESETS
TicketPresets == {3, 10, 20, 50, 100}

\* the currency of each entry of PAYMENT_METHODS
PAYMENT_CURRENCY ==
  [mercadopago |-> "CLP", tenpo |-> "CLP", santander |-> "CLP", zelle |-> "USD"]

\* TICKET_PRICES (800 and 0.8), in tenths of the unit of the currency
TICKET_PRICES == [CLP |-> 8000, USD |-> 8]

\* the account number, or the phone of the Zelle account, of each entry of
\* ACCOUNT_DETAILS
ACCOUNT_DETAILS ==
  [mercadopago |-> "1020788385", tenpo |-> "111126178351",
   santander |-> "0 000 81 08954 0", zelle |-> "7208712756"]

\* a currency that ignores the selected method
CurrencyFixed(method) == "CLP"

\* PAYMENT_METHODS.find((method) => method.id === selectedPaymentMethod)
\*   ?.currency || "CLP"
Currency(method) ==
  IF method \in DOMAIN PAYMENT_CURRENCY THEN PAYMENT_CURRENCY[method] ELSE "CLP"

\* const ticketPrice = TICKET_PRICES[currency]
TicketPrice(method) == TICKET_PRICES[Currency(method)]

\* an effect that runs only when the count changes
TotalEffectCountOnly(total, count, price, newCount, newPrice) ==
  IF newCount # count THEN newCount * newPrice ELSE total

\* useEffect(() => setTotalAmount(selectedTickets * ticketPrice),
\*           [selectedTickets, ticketPrice]): the effect runs after the render
\* in which one of its dependencies changed
TotalEffect(total, count, price, newCount, newPrice) ==
  IF newCount # count \/ newPrice # price THEN newCount * newPrice ELSE total

\* a preset that replaces the count
newTotalReplaced(count, amount) == amount

\* const newTotal = selectedTickets + amount
newTotal(count, amount) == count + amount

\* a custom text that shows the label of the preset
PresetTextLabel(total) == <<"+">> \o NumberToString(total)

\* newTotal.toString()
PresetText(total) == NumberToString(total)

\* a count that is raised to the minimum
numValueAtLeastMinimum(cleanValue) ==
  IF cleanValue = <<>> THEN 0
  ELSE IF DigitsValue(cleanValue) < MinTickets THEN MinTickets ELSE DigitsValue(cleanValue)

\* cleanValue === "" ? 0 : Math.max(0, Number.parseInt(cleanValue, 10))
numValue(cleanValue) ==
  IF cleanValue = <<>> THEN 0
  ELSE IF DigitsValue(cleanValue) < 0 THEN 0 ELSE DigitsValue(cleanValue)

\* a reset that leaves the custom text
ResetCountOnly(count, text) == [selectedTickets |-> 0, customAmount |-> text]

\* setSelectedTickets(0); setCustomAmount("")
ResetSelection(count, text) == [selectedTickets |-> 0, customAmount |-> <<>>]

\* the account detail the payment section renders: ACCOUNT_DETAILS[selectedPaymentMethod]
AccountDetail(method) == ACCOUNT_DETAILS[method]

\* aria-pressed={selectedPaymentMethod === method.id}
Pressed(selected, id) == selected = id

\* one operation on the selector or on the payment context, as recorded
Op(name, amount, text, method) ==
  [name |-> name, amount |-> amount, text |-> text, method |-> method]

\* the record with one more operation, when operations are recorded
Recorded(ops, op) == IF IsSome(ops) THEN Some(Append(Value(ops), op)) ELSE None

\* fewer than MaxOps operations are recorded so far
Recordable(ops) == IsSome(ops) => Len(Value(ops)) < MaxOps

(***************************************************************************)
(* What the user can type or select.                                       *)
(***************************************************************************)
TextFields == {"buyerName", "email", "phone", "referenceNumber"}
Typed(field) == IF field = "buyerName" THEN {<<" ">>, <<"a">>} ELSE {<<"x">>}
TicketTyped == {<<"a">>, <<"2">>, <<"3", "a">>}
FileChoices ==
  {None, Some(BrowserFile(<<"f", ".", "p">>, maxFileSize)),
   Some(BrowserFile(<<"g", ".", "p">>, maxFileSize + 1))}
CustomTyped == {<<>>, <<"2">>, <<"a", "4">>}
\* what is typed into the custom field when the selector is alone
SelectorTyped ==
  {<<>>, <<"2">>, <<"0", "0", "0", "7">>,
   <<"a", "b", "c", "1", "2", "3", "d", "e", "f">>}
\* the bodies of the responses: the value of data.error, None if absent
ErrorBodies == {None, Some("Error al procesar el formulario"), Some(EmailKeyError)}

ComponentsInit ==
  /\ formData = InitialFormData
  /\ proofFile = None
  /\ termsAccepted = FALSE
  /\ isSubmitting = FALSE
  /\ validationErrors = <<>>
  /\ inflight = <<>>
  /\ submits = 0
  /\ requests = 0
  /\ timers = <<>>
  /\ opened = 0
  /\ selectedPaymentMethod = PaymentMethods[1]
  /\ selectedTickets = 0
  /\ customAmount = <<>>
  /\ totalAmount = 0

\* the components as mounted, the operations on the selector not recorded
ClientInit == ComponentsInit /\ selectorOps = None

\* if (validationErrors.length > 0) setValidationErrors([])
ClearErrors(errors) == IF Len(errors) > 0 THEN <<>> ELSE errors

\* handleInputChange(field, value) of a text field
HandleInputChange(field, value) ==
  /\ formData' = [formData EXCEPT ![field] = value]
  /\ validationErrors' = ClearErrors(validationErrors)
  /\ UNCHANGED <<proofFile, termsAccepted, isSubmitting, inflight, submits, requests,
                 timers, opened, selectorVars, ruleVars, backVars>>

\* onChange of the ticket field: the non-digits are removed, then
\* handleInputChange("ticketCount", value)
HandleTicketCountChange(raw) ==
  /\ formData' = [formData EXCEPT !.ticketCount = OnlyDigits(raw)]
  /\ validationErrors' = ClearErrors(validationErrors)
  /\ UNCHANGED <<proofFile, termsAccepted, isSubmitting, inflight, submits, requests,
                 timers, opened, selectorVars, ruleVars, backVars>>

\* handleFileChange; file is e.target.files?.[0]
HandleFileChange(file) ==
  /\ IF FileRefused(file)
       THEN /\ validationErrors' = <<"El archivo seleccionado supera el limite de 3MB">>
            /\ proofFile' = None
       ELSE /\ proofFile' = file
            /\ validationErrors' = ClearErrors(validationErrors)
  /\ UNCHANGED <<formData, termsAccepted, isSubmitting, inflight, submits, requests,
                 timers, opened, selectorVars, ruleVars, backVars>>

\* onCheckedChange of the terms checkbox
SetTermsAccepted(checked) ==
  /\ termsAccepted # checked
  /\ termsAccepted' = checked
  /\ UNCHANGED <<formData, proofFile, isSubmitting, validationErrors, inflight, submits,
                 requests, timers, opened, selectorVars, ruleVars, backVars>>

\* handleSubmit up to await fetch(...); the submit event is delivered only
\* while the submit button is enabled
HandleSubmit ==
  /\ SubmitEnabled(isSubmitting)
  /\ submits < MaxSubmits
  /\ submits' = submits + 1
  /\ LET gate == SubmitGate(formData, proofFile, termsAccepted) IN
       /\ validationErrors' = gate.errors
       /\ isSubmitting' = gate.send
       /\ IF gate.send
            THEN /\ inflight' = Append(inflight, FormToSend(formData, proofFile))
                 /\ requests' = requests + 1
            ELSE UNCHANGED <<inflight, requests>>
  /\ UNCHANGED <<formData, proofFile, termsAccepted, timers, opened, selectorVars,
                 ruleVars, backVars>>

\* fetch rejects (network failure) or response.json() throws: catch, finally
FetchFails(i, message) ==
  /\ i \in 1..Len(inflight)
  /\ inflight' = AfterFailure(inflight, i)
  /\ requests' = requests + Len(inflight') + 1 - Len(inflight)
  /\ validationErrors' = <<message>>
  /\ isSubmitting' = Finally(isSubmitting)
  /\ UNCHANGED <<formData, proofFile, termsAccepted, submits, timers, opened,
                 selectorVars, ruleVars, backVars>>

\* a response that is not ok: its error is displayed
FetchRefused(i, err) ==
  /\ i \in 1..Len(inflight)
  /\ inflight' = AfterFailure(inflight, i)
  /\ requests' = requests + Len(inflight') + 1 - Len(inflight)
  /\ validationErrors' = <<ResponseError(err)>>
  /\ isSubmitting' = Finally(isSubmitting)
  /\ UNCHANGED <<formData, proofFile, termsAccepted, submits, timers, opened,
                 selectorVars, ruleVars, backVars>>

\* a response that is ok: the form is reset and the deep link is scheduled
FetchSucceeds(i) ==
  /\ i \in 1..Len(inflight)
  /\ inflight' = SubSeq(inflight, 1, i - 1) \o SubSeq(inflight, i + 1, Len(inflight))
  /\ formData' = InitialFormData
  /\ proofFile' = None
  /\ termsAccepted' = FALSE
  /\ validationErrors' = <<>>
  /\ timers' = ScheduleRedirect(timers)
  /\ isSubmitting' = Finally(isSubmitting)
  /\ UNCHANGED <<submits, requests, opened, selectorVars, ruleVars, backVars>>

\* the callback of setTimeout opens the deep link
RedirectFires ==
  /\ timers # <<>>
  /\ timers' = Tail(timers)
  /\ opened' = opened + 1
  /\ UNCHANGED <<formData, proofFile, termsAccepted, isSubmitting, validationErrors,
                 inflight, submits, requests, selectorVars, ruleVars, backVars>>

\* setSelectedPaymentMethod(method) of the payment context; the selector
\* renders with the new currency and its effect runs
SetSelectedPaymentMethod(method) ==
  /\ selectedPaymentMethod # method
  /\ Recordable(selectorOps)
  /\ selectedPaymentMethod' = method
  /\ totalAmount' = TotalEffect(totalAmount, selectedTickets,
                                TicketPrice(selectedPaymentMethod),
                                selectedTickets, TicketPrice(method))
  /\ selectorOps' = Recorded(selectorOps, Op("select", 0, <<>>, method))
  /\ UNCHANGED <<selectedTickets, customAmount, formVars, ruleVars, backVars>>

\* handlePresetClick(amount) of the ticket selector, and its effect; the
\* count is taken no further than limit
HandlePresetClick(amount, limit) ==
  /\ selectedTickets + amount <= limit
  /\ Recordable(selectorOps)
  /\ selectedTickets' = newTotal(selectedTickets, amount)
  /\ customAmount' = PresetText(newTotal(selectedTickets, amount))
  /\ totalAmount' = TotalEffect(totalAmount, selectedTickets,
                                TicketPrice(selectedPaymentMethod),
                                selectedTickets', TicketPrice(selectedPaymentMethod))
  /\ selectorOps' = Recorded(selectorOps, Op("addPreset", amount, <<>>, ""))
  /\ UNCHANGED <<selectedPaymentMethod, formVars, ruleVars, backVars>>

\* handleCustomChange(value) of the ticket selector, and its effect
HandleCustomChange(value) ==
  /\ Recordable(selectorOps)
  /\ customAmount' = OnlyDigits(value)
  /\ selectedTickets' = numValue(OnlyDigits(value))
  /\ totalAmount' = TotalEffect(totalAmount, selectedTickets,
                                TicketPrice(selectedPaymentMethod),
                                selectedTickets', TicketPrice(selectedPaymentMethod))
  /\ selectorOps' = Recorded(selectorOps, Op("setCustom", 0, value, ""))
  /\ UNCHANGED <<selectedPaymentMethod, formVars, ruleVars, backVars>>

\* onClick of "Reiniciar seleccion", rendered when selectedTickets > 0, and
\* the effect of the selector
HandleResetClick ==
  /\ selectedTickets > 0
  /\ Recordable(selectorOps)
  /\ selectedTickets' = ResetSelection(selectedTickets, customAmount).selectedTickets
  /\ customAmount' = ResetSelection(selectedTickets, customAmount).customAmount
  /\ totalAmount' = TotalEffect(totalAmount, selectedTickets,
                                TicketPrice(selectedPaymentMethod),
                                selectedTickets', TicketPrice(selectedPaymentMethod))
  /\ selectorOps' = Recorded(selectorOps, Op("reset", 0, <<>>, ""))
  /\ UNCHANGED <<selectedPaymentMethod, formVars, ruleVars, backVars>>

\* the form alone
FormNext ==
  \/ \E field \in TextFields : \E value \in Typed(field) : HandleInputChange(field, value)
  \/ \E raw \in TicketTyped : HandleTicketCountChange(raw)
  \/ \E file \in FileChoices : HandleFileChange(file)
  \/ \E checked \in BOOLEAN : SetTermsAccepted(checked)
  \/ HandleSubmit
  \/ \E i \in 1..MaxSubmits : \E message \in {"Failed to fetch", "Unexpected token"} :
       FetchFails(i, message)
  \/ \E i \in 1..MaxSubmits : \E err \in ErrorBodies : FetchRefused(i, err)
  \/ \E i \in 1..MaxSubmits : FetchSucceeds(i)
  \/ RedirectFires

\* the selector and the payment section alone
SelectorNext ==
  \/ \E method \in SeqToSet(PaymentMethods) : SetSelectedPaymentMethod(method)
  \/ \E amount \in TicketPresets : HandlePresetClick(amount, MaxCount)
  \/ \E value \in SelectorTyped : HandleCustomChange(value)
  \/ HandleResetClick

ClientNext ==
  \/ \E field \in TextFields : \E value \in Typed(field) : HandleInputChange(field, value)
  \/ \E raw \in TicketTyped : HandleTicketCountChange(raw)
  \/ \E file \in FileChoices : HandleFileChange(file)
  \/ \E checked \in BOOLEAN : SetTermsAccepted(checked)
  \/ HandleSubmit
  \/ \E i \in 1..MaxSubmits : \E message \in {"Failed to fetch", "Unexpected token"} :
       FetchFails(i, message)
  \/ \E i \in 1..MaxSubmits : \E err \in ErrorBodies : FetchRefused(i, err)
  \/ \E i \in 1..MaxSubmits : FetchSucceeds(i)
  \/ RedirectFires
  \/ \E method \in SeqToSet(PaymentMethods) : SetSelectedPaymentMethod(method)
  \/ \E amount \in TicketPresets : HandlePresetClick(amount, MaxSelected)
  \/ \E value \in CustomTyped : HandleCustomChange(value)
  \/ HandleResetClick

(***************************************************************************)
(* The two revisions of the intake validation that route.ts holds (the     *)
(* sides of its unresolved merge), and the rules of the form and of the    *)
(* handler applied to one ticket text and one file.                        *)
(***************************************************************************)
Revisions == {"upstream", "stashed"}

\* !ticketsComprados || ticketsComprados === "0"
TicketsRejectedUpstream(text) ==
  ~IsSome(text) \/ Value(text) = <<>> \/ Value(text) = <<"0">>

\* comprobantePago.size > maxFileSize, with maxFileSize = 3 * 1024 * 1024
ProofTooLargeUpstream(f) == f.kind = "file" /\ f.size > 3 * 1024 * 1024

\* the checks of the "Updated upstream" side in order
ValidateUpstream(in) ==
  IF Blank(in.nombre_comprador) THEN [status |-> 400, error |-> "nombre"]
  ELSE IF Blank(in.email) THEN [status |-> 400, error |-> "email"]
  ELSE IF Blank(in.telefono) THEN [status |-> 400, error |-> "telefono"]
  ELSE IF Blank(in.numero_referencia) THEN [status |-> 400, error |-> "referencia"]
  ELSE IF TicketsRejectedUpstream(in.tickets_comprados)
    THEN [status |-> 400, error |-> "mayor a 0"]
  ELSE IF ProofMissing(in.comprobante_pago)
    THEN [status |-> 400, error |-> "comprobante"]
  ELSE IF ProofTooLargeUpstream(in.comprobante_pago)
    THEN [status |-> 400, error |-> "tamano"]
  ELSE IF ExtensionThrows(in.comprobante_pago)
    THEN [status |-> 500, error |-> "interno"]
  ELSE [status |-> 0, error |-> ""]

ValidateRevision(rev, in) == IF rev = "stashed" THEN Validate(in) ELSE ValidateUpstream(in)

TicketProbes ==
  {<<>>, <<"0">>, <<"1">>, <<"2">>, <<"3">>, <<"4">>, <<"a">>,
   <<"3", "a", "b", "c">>, <<"5", ".", "9">>}
SizeProbes ==
  {0, MAX_FILE_SIZE_BYTES, MAX_FILE_SIZE_BYTES + 1, maxFileSize, maxFileSize + 1}

NoProbe == [ticketCount |-> <<>>, size |-> 0]

\* no rule is being probed
RulesIdle ==
  /\ probe = NoProbe
  /\ revision = "stashed"
  /\ clientVerdict = None
  /\ serverVerdict = None

RulesInit ==
  /\ probe \in [ticketCount : TicketProbes, size : SizeProbes]
  /\ revision \in Revisions
  /\ clientVerdict = None
  /\ serverVerdict = None

ProbeFile == BrowserFile(<<"f", ".", "p">>, probe.size)

\* a form that is complete but for the probed ticket text and file: the text
\* is typed into the ticket field, the file is chosen, submit is pressed
ClientChecks ==
  /\ clientVerdict = None
  /\ LET attached == ~FileRefused(Some(ProbeFile))
         fd == [buyerName |-> <<"a">>, email |-> <<"x">>, phone |-> <<"x">>,
                referenceNumber |-> <<"x">>,
                ticketCount |-> OnlyDigits(probe.ticketCount)]
         pf == IF attached THEN Some(ProbeFile) ELSE None
     IN clientVerdict' =
          Some([attached |-> attached, typed |-> fd.ticketCount,
                gate |-> SubmitGate(fd, pf, TRUE)])
  /\ UNCHANGED <<probe, revision, serverVerdict, formVars, selectorVars, backVars>>

\* a request that is complete but for the probed ticket text and file
ServerChecks ==
  /\ serverVerdict = None
  /\ LET in == [nombre_comprador |-> Some(<<"a">>), email |-> Some(<<"x">>),
                telefono |-> Some(<<"x">>), numero_referencia |-> Some(<<"x">>),
                tickets_comprados |-> Some(probe.ticketCount),
                comprobante_pago |-> FilePart(ProbeFile.name, ProbeFile.size)]
     IN serverVerdict' = Some(ValidateRevision(revision, in))
  /\ UNCHANGED <<probe, revision, clientVerdict, formVars, selectorVars, backVars>>

RulesNext == ClientChecks \/ ServerChecks

(***************************************************************************)
(* Specifications.                                                         *)
(***************************************************************************)
IssueInit ==
  /\ compras \in [CompraIds -> {NewCompra(n) : n \in TicketCounts}]
  /\ RunsInit

Init == IssueInit /\ IntakeInit /\ ClientInit /\ RulesIdle

SpecIssue == Init /\ [][IssueNext]_vars

SpecIssueSerial == Init /\ [][SerialNext]_vars

SpecIssueGated == Init /\ [][GatedNext]_vars

\* the intake handler alone, over one fixed content of the table compras
InitIntake ==
  /\ compras = [c \in CompraIds |-> NewCompra(1)]
  /\ RunsInit
  /\ IntakeInit
  /\ ClientInit
  /\ RulesIdle

SpecIntake == InitIntake /\ [][IntakeNext]_vars

\* issuance for purchases of one ticket each
SpecMail == InitIntake /\ [][MailNext]_vars

\* the browser side alone
InitClient ==
  /\ compras = [c \in CompraIds |-> NewCompra(1)]
  /\ RunsInit
  /\ IntakeInit
  /\ ClientInit
  /\ RulesIdle

SpecClient == InitClient /\ [][ClientNext]_vars

\* the form alone
SpecForm == InitClient /\ [][FormNext]_vars

\* a request of the form is answered or fails: fetch settles
FetchSettles ==
  \E i \in 1..MaxSubmits :
    \/ \E message \in {"Failed to fetch", "Unexpected token"} : FetchFails(i, message)
    \/ \E err \in ErrorBodies : FetchRefused(i, err)
    \/ FetchSucceeds(i)

\* the form alone, every request of which is answered or fails
SpecFormLive == InitClient /\ [][FormNext]_vars /\ WF_vars(FetchSettles)

\* the selector and the payment section alone, their operations recorded
InitSelector ==
  /\ compras = [c \in CompraIds |-> NewCompra(1)]
  /\ RunsInit
  /\ IntakeInit
  /\ ComponentsInit
  /\ selectorOps = Some(<<>>)
  /\ RulesIdle

SpecSelector == InitSelector /\ [][SelectorNext]_vars

\* the rules of the form and of the handler on one ticket text and one file
InitRules ==
  /\ compras = [c \in CompraIds |-> NewCompra(1)]
  /\ RunsInit
  /\ IntakeInit
  /\ ClientInit
  /\ RulesInit

SpecRules == InitRules /\ [][RulesNext]_vars

(***************************************************************************)
(* Properties of code issuance.                                            *)
(***************************************************************************)
RECURSIVE SumOver(_, _)
SumOver(f, S) ==
  IF S = {} THEN 0
  ELSE LET x == CHOOSE y \in S : TRUE IN f[x] + SumOver(f, S \ {x})

\* number of codes attached to all submissions together
TotalIssued ==
  SumOver([c \in CompraIds |-> IF IsSome(compras[c].codigos_unicos)
                                 THEN Len(Value(compras[c].codigos_unicos)) ELSE 0],
          CompraIds)

PairwiseDistinct(s) == \A i, j \in 1..Len(s) : i # j => s[i] # s[j]

IsFourDigitCode(code) ==
  /\ Len(code) = 4
  /\ \A i \in 1..Len(code) : \E d \in 1..10 : code[i] = DigitChars[d]

\* C1: in every reachable state, whatever the interleaving of the runs, no
\* code value is attached to more than one submission.
C1_NoCodeOnTwoSubmissions ==
  \A a, b \in CompraIds :
    a # b => RowCodes(compras[a]) \cap RowCodes(compras[b]) = {}

\* a run that finds issued-so-far + requested above the cap answers 403 and
\* changes no code list
CapFailureIssuesNothing ==
  \A r \in Runs :
    (ipc[r] = "fetch" /\ ipc'[r] = "done" /\ istatus'[r] = 403) => compras' = compras

\* C2: the total number of codes attached to all submissions never exceeds
\* the global cap, and a run that would exceed it fails without issuing
\* anything.
C2_CapNeverExceeded ==
  [](TotalIssued <= MAX_TICKETS) /\ [][CapFailureIssuesNothing]_vars

\* C3: a successful run for N tickets persists exactly N pairwise distinct
\* 4-digit codes, none already attached to a submission, and a later run
\* that does not overlap it, for a different submission, reuses none of
\* them.
C3_BatchFreshAndNeverReused ==
  /\ \A r \in Runs :
       ipc[r] = "draw" =>
         SeqToSet(codesToGenerate[r]) \cap CollectExisting(compras) = {}
  /\ \A r \in Runs :
       istatus[r] = 200 =>
         /\ Len(newCodes[r]) = compras[compra_id[r]].tickets_comprados
         /\ PairwiseDistinct(newCodes[r])
         /\ \A i \in 1..Len(newCodes[r]) : IsFourDigitCode(newCodes[r][i])
  /\ \A r1, r2 \in Runs :
       (/\ r1 \in finishedBefore[r2]
        /\ istatus[r1] = 200 /\ istatus[r2] = 200
        /\ compra_id[r1] # compra_id[r2])
       => SeqToSet(newCodes[r1]) \cap SeqToSet(newCodes[r2]) = {}

\* C4: the number of random draws of one run is bounded by a fixed multiple
\* of the requested count.
C4_DrawsBounded ==
  \A r \in Runs : ipc[r] = "draw" => draws[r] <= AttemptFactor * numTickets[r]

\* a code attached to a submission is attached to it in the next state too
CodesKept ==
  \A c \in CompraIds : RowCodes(compras[c]) \subseteq RowCodes(compras'[c])

\* C5: a code persisted against a submission stays in that submission's
\* list in every later state, also when issueCodes runs again for the same
\* submission, and appears in no other submission's list.
C5_IssuedCodeNeverReplaced ==
  [][CodesKept]_vars /\ [](C1_NoCodeOnTwoSubmissions)

\* C11: in every reachable state a submission that has issued codes attached
\* has validated = true.
C11_CodesOnlyForValidated ==
  \A c \in CompraIds : RowCodes(compras[c]) # {} => compras[c].validated

\* the step in which the rejection of a send promise is logged changes no
\* row and leaves the run reported as a success
MailFailureOnlyLogged ==
  \A r \in Runs :
    (sending[r] /\ ~sending'[r] /\ mailError'[r]) =>
      /\ compras' = compras
      /\ istatus[r] = 200 /\ istatus'[r] = 200

\* C12: when sending the email fails after the codes were persisted, the
\* persisted codes stay attached and the run still reports success; the
\* failure is only logged.
C12_MailFailureKeepsCodes ==
  /\ [][MailFailureOnlyLogged]_vars
  /\ [](\A r \in Runs : (IsSome(mailed[r]) \/ mailError[r]) => istatus[r] = 200)

\* the email of a run failed, and the batch the run wrote is still attached
C12_Witness ==
  \E r \in Runs :
    /\ mailError[r] /\ istatus[r] = 200
    /\ newCodes[r] # <<>>
    /\ compras[compra_id[r]].codigos_unicos = Some(newCodes[r])

(***************************************************************************)
(* Properties of the intake handler.                                       *)
(***************************************************************************)
Returned(r) == rpc[r] = "done"
Failed(r) == Returned(r) /\ rstatus[r] # 200

\* the handler of request r has uploaded and has not answered yet
Holding(r) == rpc[r] \in {"insertForm", "insertFile", "catch"}

\* a file-metadata row that belongs to an existing submission names the object
Owned(o) ==
  \E m \in form_files :
    m.storage_path = o.key /\ \E f \in forms : f.id = m.form_id

C7_FailedRequestLeavesNoRecord ==
  /\ \A r \in Reqs : Failed(r) => ~\E f \in forms : f.id = formId[r]
  /\ \A r \in Reqs, f \in forms :
       (Returned(r) /\ f.id = formId[r]) =>
         \E m \in form_files :
           m.form_id = f.id /\ KeyInUse(store, m.storage_path)

\* the record, the file metadata and the stored file of an accepted request
Intact(r) ==
  /\ \E f \in forms : f.id = formId[r] /\ Some(f.receipt_number) = reference[r]
  /\ \E m \in form_files :
       m.form_id = formId[r] /\ Some(m.storage_path) = uniqueFileName[r]
  /\ \E o \in store : Some(o.key) = uniqueFileName[r] /\ o.body = r

\* C8: of the requests carrying one reference number at most one record is
\* ever stored, a request that lost is rejected, and what the accepted
\* request stored stays intact.
C8_OneRecordPerReference ==
  /\ \A f, g \in forms : f.receipt_number = g.receipt_number => f = g
  /\ \A r, q \in Reqs :
       (r # q /\ Returned(r) /\ Returned(q) /\ reference[r] = reference[q])
       => ~(rstatus[r] = 200 /\ rstatus[q] = 200)
  /\ \A r \in Reqs : rerror[r] = "duplicado" /\ Returned(r) => rstatus[r] # 200
  /\ \A r \in Reqs : rstatus[r] = 200 => Intact(r)

\* two requests with the same reference number have returned, one accepted
\* and one rejected as a duplicate
C8_Witness ==
  \E w, l \in Reqs :
    /\ w # l /\ reference[w] = reference[l]
    /\ rstatus[w] = 200
    /\ Returned(l) /\ rerror[l] = "duplicado"

\* C9: a request whose reference number already exists is answered with
\* status 409.
C9_DuplicateAnswers409 ==
  \A r \in Reqs : (Returned(r) /\ rerror[r] = "duplicado") => rstatus[r] = 409

\* C10: a request that breaks a validation rule is answered with status 400
\* and causes no upload and no insert.
C10_InvalidRequestGets400 ==
  \A r \in Reqs :
    ruleFailed[r] =>
      /\ Returned(r) /\ rstatus[r] = 400
      /\ uniqueFileName[r] = None /\ formId[r] = 0
      /\ ~\E o \in store : o.body = r

(***************************************************************************)
(* Properties of the validation rules of both sides.                       *)
(***************************************************************************)
TicketMessage == "Numero de tickets es requerido (minimo 3)"
TermsMessage == "Debes aceptar los terminos y condiciones"

Probed == IsSome(clientVerdict) /\ IsSome(serverVerdict)

\* the probed text is a decimal number
ProbeIsCount == probe.ticketCount # <<>> /\ OnlyDigits(probe.ticketCount) = probe.ticketCount

ProbeCount == DigitsValue(probe.ticketCount)

ClientTicketError == TicketMessage \in SeqToSet(Value(clientVerdict).gate.errors)

\* the answer carries the minimum-count message of the handler
ServerTicketError ==
  Value(serverVerdict).status = 400 /\ Value(serverVerdict).error = "tickets"

\* C13: a ticket count below the minimum 3 is rejected by the submit gate of
\* the form and by the intake handler with a minimum-count message, and a
\* count of exactly 3 passes the ticket rule on both sides.
C13_BelowMinimumRejectedBothSides ==
  (Probed /\ ProbeIsCount) =>
    /\ ProbeCount < MinTickets => (ClientTicketError /\ ServerTicketError)
    /\ ProbeCount = MinTickets =>
         /\ ~ClientTicketError
         /\ Value(serverVerdict).error \notin {"tickets", "mayor a 0"}

\* C14: the intake handler answers 400 to every ticket text that is not
\* entirely decimal digits and never accepts it by truncation.
C14_NonDigitTextRejected ==
  (IsSome(serverVerdict) /\ ~ProbeIsCount) => Value(serverVerdict).status = 400

\* C15: one byte ceiling serves the form and the intake handler: a file of
\* exactly the ceiling is accepted by both, one byte more is rejected by
\* both with a size message, and every file the form admits passes the size
\* rule of the handler.
C15_OneCeilingBothSides ==
  (Probed /\ probe.ticketCount = <<"3">> /\ probe.size > 0) =>
    /\ Value(clientVerdict).attached <=> Value(serverVerdict).error # "tamano"
    /\ probe.size = maxFileSize =>
         (Value(clientVerdict).attached /\ Value(serverVerdict).status = 0)
    /\ probe.size = maxFileSize + 1 =>
         (~Value(clientVerdict).attached /\ Value(serverVerdict).error = "tamano")

(***************************************************************************)
(* Properties of the registration form.                                    *)
(***************************************************************************)
\* the step handles a submit event
Submitting == submits' = submits + 1

\* the messages of the rules the form breaks, the terms rule included
BrokenRuleMessages ==
  SeqToSet(ClientErrors(formData, proofFile))
    \cup (IF termsAccepted THEN {} ELSE {TermsMessage})

AllBrokenRulesReported == Submitting => SeqToSet(validationErrors') = BrokenRuleMessages

\* C16: the submit gate evaluates every rule, the terms rule included, and
\* reports the messages of all failing rules together.
C16_EveryFailingRuleReported == [][AllBrokenRulesReported]_vars

AllBlank(text) == \A i \in 1..Len(text) : text[i] = " "

\* a rule of the form fails: a text field blank, fewer than 3 tickets, no
\* proof file, or the terms not accepted
ClientRuleFails ==
  \/ \E field \in TextFields : AllBlank(formData[field])
  \/ formData.ticketCount = <<>>
  \/ DigitsValue(formData.ticketCount) < MinTickets
  \/ proofFile = None
  \/ ~termsAccepted

BlockedSubmitChangesNothing ==
  (Submitting /\ ClientRuleFails) =>
    /\ requests' = requests /\ inflight' = inflight
    /\ formData' = formData /\ proofFile' = proofFile
    /\ termsAccepted' = termsAccepted

\* C17: when a rule of the form fails, the terms rule included, submit
\* sends no request and leaves the fields, the file and the terms flag
\* unchanged.
C17_BlockedSubmitSendsNothing == [][BlockedSubmitChangesNothing]_vars

\* a submit was blocked by the terms rule alone, and nothing was sent
C17_Witness ==
  /\ submits > 0 /\ requests = 0
  /\ validationErrors = <<TermsMessage>>
  /\ ~termsAccepted /\ proofFile # None

\* C18: at most one request of the form is in flight at any time; while it
\* is awaited the submit control is disabled, so no submit starts.
C18_OneRequestInFlight ==
  /\ [](Len(inflight) <= 1)
  /\ [](Len(inflight) = 1 => (isSubmitting /\ ~SubmitEnabled(isSubmitting)))
  /\ [][Submitting => inflight = <<>>]_vars

\* a second request is awaited, after the first was answered
C18_Witness == requests = 2 /\ Len(inflight) = 1 /\ isSubmitting

OneRequestPerSubmit ==
  requests' # requests => (requests' = requests + 1 /\ Submitting)

\* C19: a submit sends at most one request, and after a failure or a
\* response that is not a success nothing is sent until the next submit.
C19_NoAutomaticRetry == [][OneRequestPerSubmit]_vars /\ [](requests <= submits)

\* a request failed, its error is displayed and nothing is in flight
C19_Witness ==
  /\ requests = 1 /\ inflight = <<>> /\ ~isSubmitting
  /\ validationErrors = <<"Failed to fetch">>

\* the step handles a response that is ok
Succeeding == Len(inflight') < Len(inflight) /\ validationErrors' = <<>>

SuccessResetsForm ==
  Succeeding =>
    /\ formData' = [buyerName |-> <<>>, email |-> <<>>, phone |-> <<>>,
                     referenceNumber |-> <<>>, ticketCount |-> <<"0">>]
    /\ proofFile' = None /\ ~termsAccepted' /\ validationErrors' = <<>>
    /\ selectedPaymentMethod' = selectedPaymentMethod
    /\ selectedTickets' = selectedTickets /\ customAmount' = customAmount
    /\ timers' = Append(timers, 1500)

\* C20: after a successful submission the fields, the file, the terms flag
\* and the error list are back at their initial values, the payment method
\* and the count of the ticket selector are unchanged, and exactly one deep
\* link is scheduled after the fixed delay.
C20_SuccessResetsFormOnly == [][SuccessResetsForm]_vars

\* a submission succeeded while a payment method and a ticket count were
\* selected
C20_Witness ==
  /\ requests = 1 /\ inflight = <<>> /\ timers = <<1500>>
  /\ formData.ticketCount = <<"0">> /\ proofFile = None
  /\ selectedPaymentMethod = "zelle" /\ selectedTickets = 3

\* the step in which a run starts its email: it is the first of the run, the
\* run answers 200, and the row holds the codes the email lists
MailFollowsUpdate ==
  \A r \in Runs :
    mailed'[r] # mailed[r] =>
      /\ mailed[r] = None /\ IsSome(mailed'[r])
      /\ istatus'[r] = 200
      /\ compras'[compra_id[r]].codigos_unicos = mailed'[r]

\* the step in which the update of a run fails starts no email
FailedUpdateMailsNothing ==
  \A r \in Runs :
    (ipc[r] = "draw" /\ ipc'[r] = "done" /\ istatus'[r] # 200) =>
      (mailed'[r] = None /\ ~sending'[r])

\* C26: an email is sent only after the batch was persisted: none when the
\* update fails, at most one per run, and it lists exactly the codes the
\* update wrote.
C26_MailOnlyAfterPersisted ==
  /\ [][MailFollowsUpdate]_vars
  /\ [][FailedUpdateMailsNothing]_vars
  /\ [](\A r \in Runs : (ipc[r] = "done" /\ istatus[r] # 200) => mailed[r] = None)
  /\ [](\A r \in Runs : IsSome(mailed[r]) => Value(mailed[r]) = newCodes[r])

\* one run answered 500 and mailed nothing, a later one mailed the batch it
\* had written
C26_Witness ==
  \E r, q \in Runs :
    /\ ipc[r] = "done" /\ istatus[r] = 500 /\ mailed[r] = None /\ ~sending[r]
    /\ compra_id[r] # NoId
    /\ r < q /\ istatus[q] = 200 /\ IsSome(mailed[q])
    /\ compras[compra_id[q]].codigos_unicos = mailed[q]

\* a submit that sends nothing leaves the flag false in the same step
BlockedSubmitReleases ==
  (Submitting /\ requests' = requests) =>
    (~isSubmitting' /\ SubmitEnabled(isSubmitting'))

\* the step in which a request is answered or fails leaves the flag false
AnswerReleases ==
  Len(inflight') < Len(inflight) => (~isSubmitting' /\ SubmitEnabled(isSubmitting'))

\* C27: every submit ends with the submitting flag false and the submit
\* control enabled again: at once when a rule of the form or the terms rule
\* blocks it, and otherwise when its request is refused, fails or succeeds.
C27_SubmitAlwaysReleased ==
  /\ isSubmitting ~> (~isSubmitting /\ SubmitEnabled(isSubmitting))
  /\ [](isSubmitting => Len(inflight) = 1)
  /\ [][BlockedSubmitReleases]_vars
  /\ [][AnswerReleases]_vars

\* a blocked submit and a submit whose request threw have both ended
C27_Witness ==
  /\ submits = 2 /\ requests = 1 /\ inflight = <<>>
  /\ ~isSubmitting /\ SubmitEnabled(isSubmitting)
  /\ validationErrors = <<"Unexpected token">>

\* the message of the size rule of the file input
SizeMessage == "El archivo seleccionado supera el limite de 3MB"

\* the ceiling of the form, 3 MiB
ClientCeiling == 3 * 1024 * 1024

ProofWithinCeiling ==
  /\ IsSome(proofFile) => Value(proofFile).size <= ClientCeiling
  /\ \A i \in 1..Len(inflight) : inflight[i].comprobante_pago.size <= ClientCeiling
  /\ validationErrors = <<SizeMessage>> => proofFile = None

\* the step in which the size error is recorded leaves no file attached,
\* and a file is attached only by a step that clears the errors
OversizeNeverAttached ==
  /\ (validationErrors' = <<SizeMessage>> /\ validationErrors # <<SizeMessage>>)
       => proofFile' = None
  /\ (proofFile' # proofFile /\ IsSome(proofFile'))
       => (Value(proofFile').size <= ClientCeiling /\ validationErrors' = <<>>)

\* C29: the attached proof file is absent or at most 3 MiB: an oversize
\* selection attaches nothing, detaches the file attached before and
\* records the size error, so no request carries a larger file.
C29_ProofWithinClientCeiling ==
  /\ []ProofWithinCeiling
  /\ [][OversizeNeverAttached]_vars

\* a file was attached and sent, the request failed, and the oversize file
\* selected next detached it
C29_Witness ==
  /\ requests = 1 /\ inflight = <<>> /\ timers = <<>> /\ opened = 0
  /\ validationErrors = <<SizeMessage>> /\ proofFile = None

\* the step writes the count, the text or the total of the selector
SelectorWritten ==
  <<selectedTickets, customAmount, totalAmount>>' #
    <<selectedTickets, customAmount, totalAmount>>

SelectorAndFieldApart ==
  /\ SelectorWritten => formData' = formData
  /\ formData'.ticketCount # formData.ticketCount => ~SelectorWritten
  /\ requests' = requests + 1 =>
       inflight'[Len(inflight')].tickets_comprados = Some(formData.ticketCount)

\* C30: the operations of the selector never change the ticket-count field
\* of the form, editing that field never changes the count or the total of
\* the selector, and a request carries the field of the form.
C30_SelectorAndFormIndependent == [][SelectorAndFieldApart]_vars

\* a request carrying "3" is awaited while the selector counts 6
C30_Witness ==
  /\ Len(inflight) = 1 /\ inflight[1].tickets_comprados = Some(<<"3">>)
  /\ selectedTickets = 6 /\ totalAmount = 6 * 8000
  /\ formData.ticketCount = <<"3">>

(***************************************************************************)
(* Properties of the ticket selector and of the payment context.           *)
(***************************************************************************)
\* the operations recorded so far, and the last of them
Ops == Value(selectorOps)
LastOp == Ops[Len(Ops)]

\* the operation the step performs
Performed == Value(selectorOps')[Len(Value(selectorOps'))]
Performs(name) ==
  /\ Len(Value(selectorOps')) = Len(Ops) + 1
  /\ Performed.name = name

\* the operations that write the count
CountOps == SelectSeq(Ops, LAMBDA o : o.name # "select")

RECURSIVE SumAmounts(_)
SumAmounts(ops) == IF ops = <<>> THEN 0 ELSE ops[1].amount + SumAmounts(Tail(ops))

OnlyPresets(ops) == \A i \in 1..Len(ops) : ops[i].name = "addPreset"

PresetAdds ==
  Performs("addPreset") => selectedTickets' = selectedTickets + Performed.amount

\* C21: addPreset(a) on a count c yields c + a whatever operation came
\* before it, so from count 0 the count after presets alone is the sum
\* of the amounts added.
C21_PresetAccumulates ==
  /\ [][PresetAdds]_vars
  /\ [](OnlyPresets(CountOps) => selectedTickets = SumAmounts(CountOps))

\* two different presets were added after a custom count and a reset
C21_Witness ==
  /\ Len(Ops) = 4
  /\ Ops[1].name = "setCustom" /\ Ops[2].name = "reset"
  /\ Ops[3] = Op("addPreset", 3, <<>>, "") /\ Ops[4] = Op("addPreset", 10, <<>>, "")
  /\ selectedTickets = 13

\* the integer the digits of a text spell, read from the left; 0 if none
RECURSIVE DigitsSpell(_, _)
DigitsSpell(text, acc) ==
  IF text = <<>> THEN acc
  ELSE IF IsDigit(Head(text))
    THEN DigitsSpell(Tail(text), 10 * acc + DigitValue(Head(text)))
  ELSE DigitsSpell(Tail(text), acc)

CustomReplaces ==
  Performs("setCustom") => selectedTickets' = DigitsSpell(Performed.text, 0)

CustomExamples ==
  (Ops # <<>> /\ LastOp.name = "setCustom") =>
    /\ LastOp.text = <<"a", "b", "c", "1", "2", "3", "d", "e", "f">> => selectedTickets = 123
    /\ LastOp.text = <<>> => selectedTickets = 0
    /\ LastOp.text = <<"0", "0", "0", "7">> => selectedTickets = 7

\* C22: setCustom(rawText) replaces the count with the integer the digits
\* of rawText spell, 0 if there is none: "abc123def" gives 123, "" gives 0
\* and "0007" gives 7.
C22_CustomReplacesCount == [][CustomReplaces]_vars /\ []CustomExamples

\* "0007" was typed over a count of 20
C22_Witness ==
  /\ Len(Ops) = 2
  /\ Ops[1] = Op("addPreset", 20, <<>>, "")
  /\ Ops[2] = Op("setCustom", 0, <<"0", "0", "0", "7">>, "")
  /\ selectedTickets = 7

\* the price of a ticket in the currency configured for the selected
\* method, in tenths: 800 CLP, 0.8 USD
ConfiguredPrice ==
  IF PAYMENT_CURRENCY[selectedPaymentMethod] = "USD" THEN 8 ELSE 8000

\* C23: after every operation on the selector and every change of the
\* payment method, total = count x price of a ticket in the currency of the
\* selected method.
C23_TotalIsCountTimesPrice == totalAmount = selectedTickets * ConfiguredPrice

\* the method was changed to one in USD while 10 tickets were selected
C23_Witness ==
  /\ Len(Ops) >= 2
  /\ LastOp = Op("select", 0, <<>>, "zelle")
  /\ selectedTickets = 10 /\ totalAmount = 80

ResetClears ==
  Performs("reset") => (selectedTickets' = 0 /\ customAmount' = <<>>)

\* C24: reset() sets the count to 0 and the text of the custom field to
\* empty, from any state addPreset and setCustom lead to.
C24_ResetClears ==
  /\ [][ResetClears]_vars
  /\ []((Ops # <<>> /\ LastOp.name = "reset") =>
          (selectedTickets = 0 /\ customAmount = <<>>))

\* the selection was reset after a custom count and a preset
C24_Witness ==
  /\ Len(Ops) = 3
  /\ Ops[1].name = "setCustom" /\ Ops[2].name = "addPreset" /\ Ops[3].name = "reset"
  /\ selectedTickets = 0 /\ customAmount = <<>>

\* the methods selected so far
Selections == SelectSeq(Ops, LAMBDA o : o.name = "select")

OneMethodSelected ==
  /\ selectedPaymentMethod \in SeqToSet(PaymentMethods)
  /\ Cardinality({m \in SeqToSet(PaymentMethods) : Pressed(selectedPaymentMethod, m)}) = 1
  /\ Selections = <<>> => selectedPaymentMethod = PaymentMethods[1]
  /\ Selections # <<>> => selectedPaymentMethod = Selections[Len(Selections)].method
  /\ AccountDetail(selectedPaymentMethod) = ACCOUNT_DETAILS[selectedPaymentMethod]
  /\ Currency(selectedPaymentMethod) = PAYMENT_CURRENCY[selectedPaymentMethod]

\* C25: exactly one of the four payment methods is selected, at first the
\* first configured one and then the one selected last; its account detail
\* is the one displayed and its currency the active one.
C25_OneMethodSelected ==
  /\ []OneMethodSelected
  /\ [][Performs("select") => selectedPaymentMethod' = Performed.method]_vars

\* a second method was selected, the one in USD
C25_Witness ==
  /\ Len(Selections) = 2 /\ Selections[1].method = "santander"
  /\ selectedPaymentMethod = "zelle"
  /\ Pressed(selectedPaymentMethod, "zelle") /\ ~Pressed(selectedPaymentMethod, "santander")
  /\ Currency(selectedPaymentMethod) = "USD"

====
